---- MODULE Spec2Model ----
(***************************************************************************)
(* NexTicket (src/NexTicket.jsx): the ticket repository held in React      *)
(* state, its two localStorage documents, and the handlers that change     *)
(* them.                                                                   *)
(*                                                                         *)
(* Representation.  A JavaScript string is a sequence of one-character     *)
(* strings, so that trim, the e-mail pattern and digit counting are        *)
(* computed.  Enumerated literals (status, priority, contactType, message  *)
(* texts) are TLA+ strings.  An ISO timestamp is the number of clock ticks *)
(* it denotes.  A JavaScript object is a record; a property that is not    *)
(* set is a field that is not in the record's DOMAIN; a property set to    *)
(* undefined holds Undefined.                                              *)
(***************************************************************************)
EXTENDS Integers, Sequences, FiniteSets, TLC

\* ------------------------------------------------------------- bounds
\* The clock runs from 0 to MaxNow.
MaxNow == 1
\* Clock ticks in one calendar day.
TicksPerDay == 1
\* Successful submissions between two loads of the page.
MaxSubmits == 2
\* Tickets held at once.
MaxTickets == 2
\* Notes held by one ticket.
MaxNotes == 2
\* Replacements of the config by its effect that are counted.
MaxReplacements == 2

\* ------------------------------------------------------------ strings
Undefined == <<"undefined">>

FALLBACK_CATEGORY == <<"O", "t", "h", "e", "r">>

FALLBACK_TEAM == <<"U", "n", "a", "s", "s", "i", "g", "n", "e", "d">>

Untitled == <<"U", "n", "t", "i", "t", "l", "e", "d">>

DigitChars == <<"0", "1", "2", "3", "4", "5", "6", "7", "8", "9">>

IsDigit(c) == \E i \in 1..10 : DigitChars[i] = c

IsSpace(c) == c \in {" ", "\t", "\n"}

\* String(n) of an integer.
RECURSIVE NatString(_)
NatString(n) ==
  IF n < 10 THEN <<DigitChars[n + 1]>>
  ELSE NatString(n \div 10) \o <<DigitChars[(n % 10) + 1]>>

String(n) == IF n < 0 THEN <<"-">> \o NatString(-n) ELSE NatString(n)

\* s.padStart(w, c)
padStart(s, w, c) ==
  IF Len(s) >= w THEN s ELSE [i \in 1..(w - Len(s)) |-> c] \o s

\* a % b of JavaScript: the sign of the result is the sign of a.
JsMod(a, b) == IF a >= 0 THEN a % b ELSE -((-a) % b)

\* s.trim()
RECURSIVE trimStart(_)
trimStart(s) ==
  IF s # <<>> /\ IsSpace(Head(s)) THEN trimStart(Tail(s)) ELSE s

RECURSIVE trimEnd(_)
trimEnd(s) ==
  IF s # <<>> /\ IsSpace(s[Len(s)]) THEN trimEnd(SubSeq(s, 1, Len(s) - 1)) ELSE s

trim(s) == trimEnd(trimStart(s))

\* s.replace(/\D/g, "")
digitsOf(s) == SelectSeq(s, IsDigit)

\* /.+@.+\..+/.test(s): somewhere in s, one or more characters other than a
\* line break, "@", one or more such characters, ".", one such character.
emailPattern(s) ==
  \E i, j \in 1..Len(s) :
    /\ 1 < i /\ i + 1 < j /\ j < Len(s)
    /\ s[i] = "@" /\ s[j] = "."
    /\ s[i - 1] # "\n" /\ s[j + 1] # "\n"
    /\ \A k \in (i + 1)..(j - 1) : s[k] # "\n"

\* ------------------------------------------------------ the calendar
\* The local date of clock reading t: the model's clock starts on
\* 2025-01-01 and a day lasts TicksPerDay ticks.
getFullYear(t) == 2025

getMonth(t) == 0

getDate(t) == 1 + (t \div TicksPerDay)

\* Date.now() and new Date().toISOString() both read the clock.
toISOString(t) == t

\* ------------------------------------------------------------- ids
generateTicketId(seq, t) ==
  LET y == getFullYear(t)
      m == padStart(String(getMonth(t) + 1), 2, "0")
      day == padStart(String(getDate(t)), 2, "0")
      n == padStart(String(JsMod(seq, 10000)), 4, "0")
  IN <<"N", "T", "K", "-">> \o String(y) \o m \o day \o <<"-">> \o n

\* `N-${Date.now()}`
noteId(t) == <<"N", "-">> \o String(t)

\* ------------------------------------------------------------ config
defaultPriorityConfig ==
  [P1 |-> [label |-> "Critical", respondMins |-> 60, resolveMins |-> 1440],
   P2 |-> [label |-> "High", respondMins |-> 120, resolveMins |-> 2880],
   P3 |-> [label |-> "Normal", respondMins |-> 240, resolveMins |-> 4320],
   P4 |-> [label |-> "Low", respondMins |-> 720, resolveMins |-> 10080]]

defaultsC ==
  << <<"H", "a", "r", "d", "w", "a", "r", "e">>,
     <<"S", "o", "f", "t", "w", "a", "r", "e">>,
     <<"A", "c", "c", "o", "u", "n", "t", "/", "A", "c", "c", "e", "s", "s">>,
     <<"N", "e", "t", "w", "o", "r", "k", "i", "n", "g">>,
     <<"F", "a", "c", "i", "l", "i", "t", "i", "e", "s">>,
     <<"O", "t", "h", "e", "r">> >>

defaultsT ==
  << <<"S", "e", "r", "v", "i", "c", "e", " ", "D", "e", "s", "k">>,
     <<"D", "e", "s", "k", "t", "o", "p", " ", "S", "u", "p", "p", "o", "r", "t">>,
     <<"N", "e", "t", "w", "o", "r", "k", "i", "n", "g">>,
     <<"D", "e", "v", "e", "l", "o", "p", "m", "e", "n", "t">>,
     <<"F", "a", "c", "i", "l", "i", "t", "i", "e", "s">>,
     <<"U", "n", "a", "s", "s", "i", "g", "n", "e", "d">> >>

\* A property of object o that is set.
Has(o, f) == f \in DOMAIN o

\* Boolean(s) of a string: the empty string is falsy.
Truthy(s) == s # <<>>

\* A parsed value that is not an array (a number, a string, an object) where
\* an array is expected: a function on {0}, where an array is one on 1..n.
NotArray == [i \in {0} |-> "x"]

\* Array.isArray(v)
isArray(v) == 0 \notin DOMAIN v

\* normalizeConfig without the defaults for lists that are left empty.
normalizeConfigNoDefaults(obj) ==
  LET categories ==
        SelectSeq(IF Has(obj, "categories") /\ isArray(obj.categories)
                  THEN obj.categories ELSE defaultsC, Truthy)
      teams ==
        SelectSeq(IF Has(obj, "teams") /\ isArray(obj.teams)
                  THEN obj.teams ELSE defaultsT, Truthy)
      safe == IF Has(obj, "priorities") THEN obj.priorities ELSE defaultPriorityConfig
      entry(p) == IF Has(safe, p) THEN safe[p] ELSE defaultPriorityConfig[p]
  IN [categories |-> categories,
      teams |-> teams,
      priorities |-> [P1 |-> entry("P1"), P2 |-> entry("P2"),
                      P3 |-> entry("P3"), P4 |-> entry("P4")]]

\* normalizeConfig(obj): obj is the parsed object, or the empty record for
\* a call without argument.  A property that holds null is one that is not
\* set: ?. and ?? treat both alike.
normalizeConfig(obj) ==
  LET categories ==
        SelectSeq(IF Has(obj, "categories") /\ isArray(obj.categories)
                  THEN obj.categories ELSE defaultsC, Truthy)
      teams ==
        SelectSeq(IF Has(obj, "teams") /\ isArray(obj.teams)
                  THEN obj.teams ELSE defaultsT, Truthy)
      safe == IF Has(obj, "priorities") THEN obj.priorities ELSE defaultPriorityConfig
      entry(p) == IF Has(safe, p) THEN safe[p] ELSE defaultPriorityConfig[p]
  IN [categories |-> IF Len(categories) # 0 THEN categories ELSE defaultsC,
      teams |-> IF Len(teams) # 0 THEN teams ELSE defaultsT,
      priorities |-> [P1 |-> entry("P1"), P2 |-> entry("P2"),
                      P3 |-> entry("P3"), P4 |-> entry("P4")]]

\* A localStorage item is <<>> when the key is not set and <<v>> when it
\* holds the JSON text of v.
NoItem == <<>>

loadConfig(item) ==
  IF item = NoItem THEN normalizeConfig(<<>>) ELSE normalizeConfig(item[1])

saveConfig(c) == <<c>>

\* --------------------------------------------------------- migration
isPriority(v) == v \in {"P1", "P2", "P3", "P4"}

\* A stored entry that is null, and one that is a number: reading a
\* property of null throws, reading one of a number gives undefined.
Null == [null |-> TRUE]

Primitive == [valueOf |-> 5]

\* What a call that throws gives back in place of a value.
TypeError == [thrown |-> "TypeError"]

\* A truthy parsed value that is not a string where a string is expected
\* (a number, an array): a function on {0} that holds its String(v).
\* Falsy ones (null, 0, false) are fields that are not set: || treats
\* both alike.
NonString(text) == [i \in {0} |-> text]

\* String([]) is the empty string.
EmptyArray == NonString(<<>>)

\* String(v) of a parsed value.
toText(v) == IF 0 \in DOMAIN v THEN v[0] ELSE v

\* migrateTicket(t) at clock reading t0, for a stored entry t.  t?.priority
\* and t?.team read null safely; t.id throws on it.
migrateTicket(t, t0) ==
  IF t = Null THEN TypeError
  ELSE
  [id |-> IF Has(t, "id") /\ Truthy(t.id) THEN toText(t.id) ELSE generateTicketId(0, t0),
   title |-> IF Has(t, "title") /\ Truthy(t.title) THEN toText(t.title) ELSE Untitled,
   description |-> IF Has(t, "description") /\ Truthy(t.description)
                   THEN toText(t.description) ELSE <<>>,
   name |-> IF Has(t, "name") /\ Truthy(t.name) THEN toText(t.name) ELSE <<>>,
   contactType |-> IF Has(t, "contactType") /\ t.contactType = "phone"
                   THEN "phone" ELSE "email",
   contactValue |-> IF Has(t, "contactValue") /\ Truthy(t.contactValue)
                    THEN toText(t.contactValue) ELSE <<>>,
   category |-> IF Has(t, "category") /\ Truthy(t.category)
                THEN toText(t.category) ELSE FALLBACK_CATEGORY,
   team |-> IF Has(t, "team") /\ Truthy(t.team) THEN t.team ELSE FALLBACK_TEAM,
   status |-> IF Has(t, "status") /\ t.status # "" THEN t.status ELSE "Open",
   priority |-> IF Has(t, "priority") /\ isPriority(t.priority)
                THEN t.priority ELSE "P3",
   createdAt |-> IF Has(t, "createdAt") THEN t.createdAt ELSE toISOString(t0),
   updatedAt |-> IF Has(t, "updatedAt") THEN t.updatedAt ELSE toISOString(t0),
   notes |-> IF Has(t, "notes") /\ isArray(t.notes) THEN t.notes ELSE <<>>]

\* ----------------------------------------------------- load and save
\* JSON.stringify leaves out the properties that hold undefined.
\* In a note only author (author?: string) can hold it.
jsonObject(o) ==
  LET keep == {f \in DOMAIN o : ~(f = "author" /\ o[f] = Undefined)}
  IN [f \in keep |-> o[f]]

jsonTicket(t) ==
  [f \in DOMAIN t |->
     IF f = "notes" THEN [i \in 1..Len(t.notes) |-> jsonObject(t.notes[i])]
     ELSE t[f]]

\* JSON.stringify(tickets)
stringifyTickets(ts) == [i \in 1..Len(ts) |-> jsonTicket(ts[i])]

\* loadTickets(): a document that is not an array gives [], and so does a
\* migrateTicket that throws, by the catch.
loadTickets(item, t0) ==
  IF item = NoItem THEN <<>>
  ELSE IF ~isArray(item[1]) THEN <<>>
  ELSE IF \E i \in 1..Len(item[1]) : migrateTicket(item[1][i], t0) = TypeError THEN <<>>
  ELSE [i \in 1..Len(item[1]) |-> migrateTicket(item[1][i], t0)]

saveTickets(ts) == <<stringifyTickets(ts)>>

\* ------------------------------------------------------------- state
VARIABLES
  tickets,        \* useState<Ticket[]>: the collection, newest first
  seq,            \* useState<number>: the next sequence number
  cfg,            \* useState<Config>
  submitMsg,      \* useState<string>: what the last submission reported
  storedTickets,  \* localStorage item nexticket_tickets_v1
  storedCfg,      \* localStorage item nexticket_config_v1
  now,            \* the clock
  pc,             \* mounting: "render", "loaded", "saved"; then "ready"
  pending,        \* the setTickets update queued by the mount effect
  last            \* the handler that ran last, with its arguments

vars ==
  <<tickets, seq, cfg, submitMsg, storedTickets, storedCfg, now, pc, pending, last>>

NoMsg == [kind |-> "none", errs |-> <<>>, id |-> <<>>]

\* tickets.find((x) => x.id === id): the first ticket of that id.
HasTicket(ts, id) == \E i \in 1..Len(ts) : ts[i].id = id

find(ts, id) ==
  ts[CHOOSE i \in 1..Len(ts) : ts[i].id = id /\ \A j \in 1..(i - 1) : ts[j].id # id]

TicketIds(ts) == {ts[i].id : i \in 1..Len(ts)}

\* ----------------------------------------------------- the portal
safeDefaults(currentCfg) ==
  LET others == SelectSeq(currentCfg.teams, LAMBDA t : t # FALLBACK_TEAM)
  IN [category |-> IF Len(currentCfg.categories) > 0 /\ Truthy(currentCfg.categories[1])
                   THEN currentCfg.categories[1] ELSE FALLBACK_CATEGORY,
      team |-> IF Len(others) > 0 /\ Truthy(others[1]) THEN others[1]
               ELSE IF Len(currentCfg.teams) > 0 /\ Truthy(currentCfg.teams[1])
                    THEN currentCfg.teams[1] ELSE FALLBACK_TEAM,
      priority |-> "P3"]

\* validate without the format check of an e-mail contact.
validateNoFormat(form) ==
  (IF trim(form.title) = <<>> THEN <<"Title is required.">> ELSE <<>>)
  \o (IF trim(form.description) = <<>> THEN <<"Description is required.">> ELSE <<>>)
  \o (IF trim(form.name) = <<>> THEN <<"Your name is required.">> ELSE <<>>)
  \o (IF trim(form.contactValue) = <<>> THEN <<"Contact info is required.">> ELSE <<>>)
  \o (IF form.contactType = "phone" /\ Len(digitsOf(form.contactValue)) < 10
      THEN <<"Please enter a valid phone number (10+ digits).">> ELSE <<>>)

validate(form) ==
  (IF trim(form.title) = <<>> THEN <<"Title is required.">> ELSE <<>>)
  \o (IF trim(form.description) = <<>> THEN <<"Description is required.">> ELSE <<>>)
  \o (IF trim(form.name) = <<>> THEN <<"Your name is required.">> ELSE <<>>)
  \o (IF trim(form.contactValue) = <<>> THEN <<"Contact info is required.">> ELSE <<>>)
  \o (IF form.contactType = "email"
      THEN IF ~emailPattern(trim(form.contactValue))
           THEN <<"Please enter a valid email address.">> ELSE <<>>
      ELSE IF Len(digitsOf(form.contactValue)) < 10
           THEN <<"Please enter a valid phone number (10+ digits).">> ELSE <<>>)

\* newTicket with the team of safeDefaults instead of the unassigned one.
newTicketDefaultTeam(form, s, currentCfg, t0) ==
  LET d == safeDefaults(currentCfg)
  IN [id |-> generateTicketId(s, t0),
      title |-> trim(form.title),
      description |-> trim(form.description),
      name |-> trim(form.name),
      contactType |-> form.contactType,
      contactValue |-> trim(form.contactValue),
      category |-> IF Truthy(form.category) THEN form.category ELSE d.category,
      team |-> d.team,
      status |-> "Open",
      priority |-> d.priority,
      createdAt |-> toISOString(t0),
      updatedAt |-> toISOString(t0),
      notes |-> <<>>]

\* The ticket submitTicket builds from the form, at clock reading t0.
newTicket(form, s, currentCfg, t0) ==
  LET d == safeDefaults(currentCfg)
  IN [id |-> generateTicketId(s, t0),
      title |-> trim(form.title),
      description |-> trim(form.description),
      name |-> trim(form.name),
      contactType |-> form.contactType,
      contactValue |-> trim(form.contactValue),
      category |-> IF Truthy(form.category) THEN form.category ELSE d.category,
      team |-> FALLBACK_TEAM,
      status |-> "Open",
      priority |-> d.priority,
      createdAt |-> toISOString(t0),
      updatedAt |-> toISOString(t0),
      notes |-> <<>>]

\* setTickets without the effect that saves.
setTicketsNoEffect(next) ==
  /\ tickets' = next
  /\ UNCHANGED storedTickets

\* setTickets(next) followed by the effect on [tickets], which saves them.
setTickets(next) ==
  /\ tickets' = next
  /\ storedTickets' = saveTickets(next)

\* ------------------------------------------------------ the updaters
\* {...t, ...changes, updatedAt: new Date().toISOString()}
merge(t, changes, t0) ==
  [f \in DOMAIN t \cup DOMAIN changes |->
     IF f = "updatedAt" THEN toISOString(t0)
     ELSE IF f \in DOMAIN changes THEN changes[f] ELSE t[f]]

\* updateTicket without the stamp: {...t, ...changes}
updateTicketNoStamp(prev, id, changes, t0) ==
  [i \in 1..Len(prev) |->
     IF prev[i].id = id
     THEN [f \in DOMAIN prev[i] \cup DOMAIN changes |->
             IF f \in DOMAIN changes THEN changes[f] ELSE prev[i][f]]
     ELSE prev[i]]

\* updateTicket's updater: prev.map(...)
updateTicket(prev, id, changes, t0) ==
  [i \in 1..Len(prev) |-> IF prev[i].id = id THEN merge(prev[i], changes, t0) ELSE prev[i]]

\* deleteTicket's updater: prev.filter((t) => t.id !== id)
removeTicket(prev, id) == SelectSeq(prev, LAMBDA t : t.id # id)

\* onAddNote's change: the notes of the first ticket of that id, and a new note.
addedNotes(ts, id, text, author, t0) ==
  Append(find(ts, id).notes,
         [id |-> noteId(t0), text |-> text, author |-> author,
          createdAt |-> toISOString(t0)])

\* onDeleteNote's change: t.notes.filter((n) => n.id !== noteId)
remainingNotes(ts, id, nid) == SelectSeq(find(ts, id).notes, LAMBDA n : n.id # nid)

\* ------------------------------------------------------------ inputs
\* What the user types into the portal form before pressing Submit.
GoodForm ==
  [title |-> <<" ", "T">>, description |-> <<"D">>, name |-> <<"N">>,
   contactType |-> "email", contactValue |-> <<"a", "@", "b", ".", "c", " ">>,
   category |-> defaultsC[1]]

PhoneForm ==
  [GoodForm EXCEPT !.contactType = "phone",
     !.contactValue = <<"5", "5", "5", "-", "1", "2", "3", "-", "4", "5", "6", "7">>]

FormInputs ==
  { GoodForm,
    PhoneForm,
    [GoodForm EXCEPT !.title = <<" ">>],
    [GoodForm EXCEPT !.description = <<>>],
    [GoodForm EXCEPT !.name = <<" ", " ">>],
    [GoodForm EXCEPT !.contactValue = <<" ">>],
    [GoodForm EXCEPT !.contactValue =
       <<"n", "o", "t", "-", "a", "n", "-", "e", "m", "a", "i", "l">>],
    [GoodForm EXCEPT !.contactValue = <<"@", "b", ".", "c">>],
    [GoodForm EXCEPT !.contactValue = <<"a", "@", "b", ".">>],
    [GoodForm EXCEPT !.contactValue = <<"a", "@", ".", "c">>],
    [PhoneForm EXCEPT !.contactValue = <<"5", "5", "5", "-", "1", "2", "3", "4">>],
    [PhoneForm EXCEPT !.contactValue = <<" ">>],
    [PhoneForm EXCEPT !.title = <<>>, !.contactValue = <<"1", "2">>] }

\* The forms the full machine is run with: one that passes, one that fails.
PortalForms ==
  { GoodForm,
    [GoodForm EXCEPT !.contactValue =
       <<"n", "o", "t", "-", "a", "n", "-", "e", "m", "a", "i", "l">>] }

\* What the selects of a ticket card can send to updateTicket.
InlineChanges == { [status |-> "In Progress"] }

\* What the detail editor's fields can be changed to before Save Changes.
DraftEdits == { [status |-> "Closed"] }

NoteTexts == { <<"n">> }

\* noteAuthor.trim() || undefined, with the author left blank.
NoteAuthors == { Undefined }

\* A note id no note holds, and a ticket id no ticket holds.
UnknownNoteId == <<"N", "-", "?">>

UnknownTicketId == <<"N", "T", "K", "-", "?">>

\* ----------------------------------------------------------- actions
\* The clock advances.
Tick ==
  /\ now < MaxNow
  /\ now' = now + 1
  /\ last' = [op |-> "Tick"]
  /\ UNCHANGED <<tickets, seq, cfg, submitMsg, storedTickets, storedCfg, pc, pending>>

\* submitTicket, with the form as typed.
submitTicket(form) ==
  /\ pc = "ready"
  /\ last' = [op |-> "submitTicket", form |-> form]
  /\ LET errs == validate(form)
     IN IF Len(errs) # 0
        THEN /\ submitMsg' = [kind |-> "errors", errs |-> errs, id |-> <<>>]
             /\ UNCHANGED <<tickets, seq, storedTickets>>
        ELSE /\ seq <= MaxSubmits
             /\ Len(tickets) < MaxTickets
             /\ seq' = seq + 1
             /\ setTickets(<<newTicket(form, seq, cfg, now)>> \o tickets)
             /\ submitMsg' = [kind |-> "thanks", errs |-> <<>>,
                              id |-> generateTicketId(seq, now)]
  /\ UNCHANGED <<cfg, storedCfg, now, pc, pending>>

\* A select of the card of ticket id: updateTicket(t.id, {...}).
onChange(id, changes) ==
  /\ pc = "ready"
  /\ last' = [op |-> "updateTicket", id |-> id, changes |-> changes]
  /\ setTickets(updateTicket(tickets, id, changes, now))
  /\ UNCHANGED <<seq, cfg, submitMsg, storedCfg, now, pc, pending>>

\* The draft of the detail editor opened on id: the nine fields of the
\* ticket it shows, with the user's edits.
draftOf(ts, id, edits) ==
  LET t == find(ts, id)
      fields == {"title", "description", "name", "contactType", "contactValue",
                 "category", "team", "status", "priority"}
  IN [f \in fields |-> IF f \in DOMAIN edits THEN edits[f] ELSE t[f]]

\* Save Changes in the detail editor opened on id: onSave({...draft}).
handleSave(id, edits) ==
  /\ pc = "ready"
  /\ HasTicket(tickets, id)
  /\ last' = [op |-> "handleSave", id |-> id, changes |-> draftOf(tickets, id, edits)]
  /\ setTickets(updateTicket(tickets, id, draftOf(tickets, id, edits), now))
  /\ UNCHANGED <<seq, cfg, submitMsg, storedCfg, now, pc, pending>>

\* Add Note in the detail editor opened on id, with the trimmed text.
onAddNote(id, text, author) ==
  /\ pc = "ready"
  /\ last' = [op |-> "onAddNote", id |-> id, note |-> noteId(now)]
  /\ IF ~HasTicket(tickets, id)
     THEN UNCHANGED <<tickets, storedTickets>>
     ELSE /\ Len(find(tickets, id).notes) < MaxNotes
          /\ setTickets(updateTicket(tickets, id,
                          [notes |-> addedNotes(tickets, id, text, author, now)], now))
  /\ UNCHANGED <<seq, cfg, submitMsg, storedCfg, now, pc, pending>>

\* onDeleteNote(noteId) in the detail editor opened on id.
onDeleteNote(id, nid) ==
  /\ pc = "ready"
  /\ last' = [op |-> "onDeleteNote", id |-> id, note |-> nid]
  /\ IF ~HasTicket(tickets, id)
     THEN UNCHANGED <<tickets, storedTickets>>
     ELSE setTickets(updateTicket(tickets, id,
                       [notes |-> remainingNotes(tickets, id, nid)], now))
  /\ UNCHANGED <<seq, cfg, submitMsg, storedCfg, now, pc, pending>>

\* deleteTicket that does not return when confirm() is declined.
deleteTicketNoGate(id, confirmed) ==
  /\ pc = "ready"
  /\ last' = [op |-> "deleteTicket", id |-> id, confirmed |-> confirmed]
  /\ setTickets(removeTicket(tickets, id))
  /\ UNCHANGED <<seq, cfg, submitMsg, storedCfg, now, pc, pending>>

\* deleteTicket(id), with the answer given to confirm().
deleteTicket(id, confirmed) ==
  /\ pc = "ready"
  /\ last' = [op |-> "deleteTicket", id |-> id, confirmed |-> confirmed]
  /\ IF ~confirmed
     THEN UNCHANGED <<tickets, storedTickets>>
     ELSE setTickets(removeTicket(tickets, id))
  /\ UNCHANGED <<seq, cfg, submitMsg, storedCfg, now, pc, pending>>

\* setCfg(next) followed by the effect on [cfg]: the normalized config is
\* saved, and replaces cfg when it differs.
setCfg(next) ==
  /\ cfg' = normalizeConfig(next)
  /\ storedCfg' = saveConfig(normalizeConfig(next))

\* The Reset All button, with the answer given to confirm().
ResetAll(confirmed) ==
  /\ pc = "ready"
  /\ last' = [op |-> "ResetAll", confirmed |-> confirmed]
  /\ IF ~confirmed
     THEN UNCHANGED <<tickets, storedTickets, cfg, storedCfg>>
     ELSE /\ setTickets(<<>>)
          /\ setCfg(loadConfig(NoItem))
  /\ UNCHANGED <<seq, submitMsg, now, pc, pending>>

\* The page is loaded again: TicketingApp renders with its initial state.
Reload ==
  /\ pc = "ready"
  /\ pc' = "render"
  /\ tickets' = <<>>
  /\ cfg' = loadConfig(storedCfg)
  /\ seq' = (Len(loadTickets(storedTickets, now)) % 10000) + 1
  /\ submitMsg' = NoMsg
  /\ pending' = <<>>
  /\ last' = [op |-> "Reload"]
  /\ UNCHANGED <<storedTickets, storedCfg, now>>

\* The mount effect: setTickets(loadTickets()), applied at the next render.
MountLoad ==
  /\ pc = "render"
  /\ pc' = "loaded"
  /\ pending' = loadTickets(storedTickets, now)
  /\ last' = [op |-> "MountLoad"]
  /\ UNCHANGED <<tickets, seq, cfg, submitMsg, storedTickets, storedCfg, now>>

\* The effects on [tickets] and on [cfg] of the first render.
MountSave ==
  /\ pc = "loaded"
  /\ pc' = "saved"
  /\ storedTickets' = saveTickets(tickets)
  /\ setCfg(cfg)
  /\ last' = [op |-> "MountSave"]
  /\ UNCHANGED <<tickets, seq, submitMsg, now, pending>>

\* The render that applies the queued update, and its effect on [tickets].
MountCommit ==
  /\ pc = "saved"
  /\ pc' = "ready"
  /\ setTickets(pending)
  /\ pending' = <<>>
  /\ last' = [op |-> "MountCommit"]
  /\ UNCHANGED <<seq, cfg, submitMsg, storedCfg, now>>

\* The first render of TicketingApp over the two stored items.
Mounted(ticketsItem, cfgItem, t0) ==
  /\ tickets = <<>>
  /\ cfg = loadConfig(cfgItem)
  /\ seq = (Len(loadTickets(ticketsItem, t0)) % 10000) + 1
  /\ submitMsg = NoMsg
  /\ storedTickets = ticketsItem
  /\ storedCfg = cfgItem
  /\ now = t0
  /\ pc = "render"
  /\ pending = <<>>
  /\ last = [op |-> "Reload"]

\* A first visit: nothing is stored.
Init == Mounted(NoItem, NoItem, 0)

\* The ids the handlers are called with: those of the tickets shown, and
\* one that no ticket holds.
TicketIdInputs == TicketIds(tickets) \cup {UnknownTicketId}

NoteIdInputs(id) ==
  {UnknownNoteId} \cup
  (IF HasTicket(tickets, id)
   THEN {find(tickets, id).notes[i].id : i \in 1..Len(find(tickets, id).notes)}
   ELSE {})

Next ==
  \/ Tick
  \/ \E form \in PortalForms : submitTicket(form)
  \/ \E id \in TicketIdInputs, changes \in InlineChanges : onChange(id, changes)
  \/ \E id \in TicketIds(tickets), edits \in DraftEdits : handleSave(id, edits)
  \/ \E id \in TicketIdInputs, text \in NoteTexts, author \in NoteAuthors :
       onAddNote(id, text, author)
  \/ \E id \in TicketIdInputs : \E nid \in NoteIdInputs(id) : onDeleteNote(id, nid)
  \/ \E id \in TicketIdInputs, confirmed \in BOOLEAN : deleteTicket(id, confirmed)
  \/ \E confirmed \in BOOLEAN : ResetAll(confirmed)
  \/ Reload
  \/ MountLoad
  \/ MountSave
  \/ MountCommit

Spec == Init /\ [][Next]_vars

\* The portal alone, with every form of FormInputs.
NextForms ==
  \/ Tick
  \/ \E form \in FormInputs : submitTicket(form)
  \/ \E id \in TicketIdInputs, confirmed \in BOOLEAN : deleteTicket(id, confirmed)
  \/ MountLoad
  \/ MountSave
  \/ MountCommit

SpecForms == Init /\ [][NextForms]_vars

\* ------------------------------------------- the configuration editors
\* values.includes(v)
includes(values, v) == \E i \in 1..Len(values) : values[i] = v

\* TagEditor.removeTag's argument of onChange: values.filter((x) => x !== v)
removeTag(values, v) == SelectSeq(values, LAMBDA x : x # v)

\* Number(text) || 0 for the text of a number input: the empty text, digits,
\* or a minus sign and digits.
RECURSIVE digitsValue(_)
digitsValue(s) ==
  IF s = <<>> THEN 0
  ELSE 10 * digitsValue(SubSeq(s, 1, Len(s) - 1))
       + (CHOOSE d \in 0..9 : DigitChars[d + 1] = s[Len(s)])

NumberOrZero(text) ==
  IF text = <<>> THEN 0
  ELSE IF Head(text) = "-" /\ Len(text) > 1 /\ \A i \in 2..Len(text) : IsDigit(text[i])
       THEN -digitsValue(Tail(text))
  ELSE IF \A i \in 1..Len(text) : IsDigit(text[i]) THEN digitsValue(text)
  ELSE 0

\* {...o, [f]: v}
spread(o, f, v) == [g \in DOMAIN o \cup {f} |-> IF g = f THEN v ELSE o[g]]

\* What the administrator types into a tag editor, and the tags removed.
TagA == <<"A">>

TagX == <<"X">>

TagTexts == { <<" ">>, <<" ", "X">> }

RemovedTags == { TagA, TagX, FALLBACK_CATEGORY, FALLBACK_TEAM }

\* What is typed into the minutes fields, and the priorities edited.
MinuteTexts == { <<>>, <<"-", "5">>, <<"7">> }

EditedPriorities == { "P1" }

\* Add in the category editor: addTag, then onChange of line 471.
addCategory(input) ==
  /\ pc = "ready"
  /\ last' = [op |-> "addCategory", tag |-> trim(input)]
  /\ IF ~Truthy(trim(input)) \/ includes(cfg.categories, trim(input))
     THEN UNCHANGED <<cfg, storedCfg>>
     ELSE setCfg(spread(cfg, "categories", Append(cfg.categories, trim(input))))
  /\ UNCHANGED <<tickets, seq, submitMsg, storedTickets, now, pc, pending>>

\* The x of a category tag: removeTag, then onChange of line 471.
removeCategory(v) ==
  /\ pc = "ready"
  /\ includes(cfg.categories, v)
  /\ last' = [op |-> "removeCategory", tag |-> v]
  /\ LET vals == removeTag(cfg.categories, v)
     IN setCfg(spread(cfg, "categories",
                      IF Len(vals) # 0 THEN vals ELSE <<FALLBACK_CATEGORY>>))
  /\ UNCHANGED <<tickets, seq, submitMsg, storedTickets, now, pc, pending>>

\* Add in the team editor: addTag, then onChange of line 475.
addTeam(input) ==
  /\ pc = "ready"
  /\ last' = [op |-> "addTeam", tag |-> trim(input)]
  /\ IF ~Truthy(trim(input)) \/ includes(cfg.teams, trim(input))
     THEN UNCHANGED <<cfg, storedCfg>>
     ELSE setCfg(spread(cfg, "teams", Append(cfg.teams, trim(input))))
  /\ UNCHANGED <<tickets, seq, submitMsg, storedTickets, now, pc, pending>>

\* The x of a team tag: removeTag, then onChange of line 475.
removeTeam(v) ==
  /\ pc = "ready"
  /\ includes(cfg.teams, v)
  /\ last' = [op |-> "removeTeam", tag |-> v]
  /\ LET vals == removeTag(cfg.teams, v)
     IN setCfg(spread(cfg, "teams", IF Len(vals) # 0 THEN vals ELSE <<FALLBACK_TEAM>>))
  /\ UNCHANGED <<tickets, seq, submitMsg, storedTickets, now, pc, pending>>

\* The Respond (mins) and Resolve (mins) fields of priority p.
setMins(p, field, text) ==
  /\ pc = "ready"
  /\ last' = [op |-> "setMins", p |-> p, field |-> field, mins |-> NumberOrZero(text)]
  /\ setCfg(spread(cfg, "priorities",
                   spread(cfg.priorities, p,
                          spread(cfg.priorities[p], field, NumberOrZero(text)))))
  /\ UNCHANGED <<tickets, seq, submitMsg, storedTickets, now, pc, pending>>

\* The config documents an earlier session or version left behind.
StoredConfigs ==
  { [categories |-> <<>>, teams |-> <<>>],
    [categories |-> << <<>>, <<>> >>, teams |-> << <<>> >>],
    [categories |-> NotArray, teams |-> NotArray],
    [categories |-> <<TagA>>, teams |-> <<TagA>>],
    [teams |-> <<FALLBACK_TEAM>>,
     priorities |-> [P1 |-> [label |-> "Critical", respondMins |-> 30, resolveMins |-> 90]]],
    [priorities |-> [P1 |-> [label |-> "Critical", respondMins |-> -5, resolveMins |-> 10],
                     P3 |-> [label |-> "Normal"]]] }

\* A visit that finds a config document, or none.
InitCfg ==
  \E item \in {NoItem} \cup {<<c>> : c \in StoredConfigs} : Mounted(NoItem, item, 0)

NextCfg ==
  \/ \E input \in TagTexts : addCategory(input)
  \/ \E v \in RemovedTags : removeCategory(v)
  \/ \E input \in TagTexts : addTeam(input)
  \/ \E v \in RemovedTags : removeTeam(v)
  \/ \E p \in EditedPriorities, field \in {"respondMins", "resolveMins"},
        text \in MinuteTexts : setMins(p, field, text)
  \/ \E confirmed \in BOOLEAN : ResetAll(confirmed)
  \/ Reload
  \/ MountLoad
  \/ MountSave
  \/ MountCommit

SpecCfg == InitCfg /\ [][NextCfg]_vars

\* ------------------------------------------------- the config effect
\* The configs the editors pass to setCfg when the config in memory is c:
\* lines 471 and 475 for the tags, 490 and 491 for the minutes.
CfgChanges(c) ==
  { spread(c, "categories", Append(c.categories, trim(input))) :
      input \in {i \in TagTexts : Truthy(trim(i)) /\ ~includes(c.categories, trim(i))} }
  \cup
  { spread(c, "teams", Append(c.teams, trim(input))) :
      input \in {i \in TagTexts : Truthy(trim(i)) /\ ~includes(c.teams, trim(i))} }
  \cup
  { spread(c, "categories",
           IF Len(removeTag(c.categories, v)) # 0
           THEN removeTag(c.categories, v) ELSE <<FALLBACK_CATEGORY>>) :
      v \in {x \in RemovedTags : includes(c.categories, x)} }
  \cup
  { spread(c, "teams",
           IF Len(removeTag(c.teams, v)) # 0
           THEN removeTag(c.teams, v) ELSE <<FALLBACK_TEAM>>) :
      v \in {x \in RemovedTags : includes(c.teams, x)} }
  \cup
  { spread(c, "priorities",
           spread(c.priorities, p, spread(c.priorities[p], field, NumberOrZero(text)))) :
      p \in EditedPriorities, field \in {"respondMins", "resolveMins"},
      text \in MinuteTexts }

\* setCfg(next) of a handler: the config is set and its effect is scheduled.
changeCfg(next) ==
  /\ pc = "ready"
  /\ cfg' = next
  /\ pc' = "effect"
  /\ last' = [op |-> "setCfg", replaced |-> 0]
  /\ UNCHANGED <<tickets, seq, submitMsg, storedTickets, storedCfg, now, pending>>

\* The effect without the comparison: setCfg(normalized) every time.
cfgEffectAlwaysSets ==
  /\ pc = "effect"
  /\ cfg' = normalizeConfig(cfg)
  /\ pc' = "effect"
  /\ last' = [op |-> "cfgEffect",
              replaced |-> IF last.replaced < MaxReplacements
                           THEN last.replaced + 1 ELSE last.replaced]
  /\ storedCfg' = saveConfig(normalizeConfig(cfg))
  /\ UNCHANGED <<tickets, seq, submitMsg, storedTickets, now, pending>>

\* One run of the effect on [cfg].  The two JSON texts it compares are the
\* ones saveConfig would write.  A setCfg(normalized) schedules it again.
cfgEffect ==
  /\ pc = "effect"
  /\ IF saveConfig(normalizeConfig(cfg)) # saveConfig(cfg)
     THEN /\ cfg' = normalizeConfig(cfg)
          /\ pc' = "effect"
          /\ last' = [op |-> "cfgEffect",
                      replaced |-> IF last.replaced < MaxReplacements
                                   THEN last.replaced + 1 ELSE last.replaced]
     ELSE /\ cfg' = cfg
          /\ pc' = "ready"
          /\ last' = [op |-> "cfgEffect", replaced |-> last.replaced]
  /\ storedCfg' = saveConfig(normalizeConfig(cfg))
  /\ UNCHANGED <<tickets, seq, submitMsg, storedTickets, now, pending>>

NextEffect ==
  \/ \E next \in CfgChanges(cfg) : changeCfg(next)
  \/ cfgEffect
  \/ Reload
  \/ MountLoad
  \/ MountSave
  \/ MountCommit

\* React runs a scheduled effect before it handles the next event.
SpecEffect == InitCfg /\ [][NextEffect]_vars /\ WF_vars(cfgEffect)

\* --------------------------------------------- stored legacy records
Legacy1 ==
  [id |-> <<"L", "-", "1">>, title |-> <<"L", "e", "g", "a", "c", "y">>, createdAt |-> 0]

Legacy2 ==
  [id |-> <<"L", "-", "2">>, title |-> <<"L", "e", "g", "a", "c", "y">>, updatedAt |-> 0]

Legacy3 ==
  [id |-> <<"L", "-", "3">>, title |-> <<"O", "l", "d">>, description |-> <<"D">>,
   name |-> <<"N">>, contactType |-> "phone", contactValue |-> <<"5", "5", "5">>,
   category |-> defaultsC[2], team |-> defaultsT[1], status |-> "Resolved",
   priority |-> "P2", createdAt |-> 0, updatedAt |-> 0,
   notes |-> << [id |-> <<"N", "-", "0">>, text |-> <<"n">>, createdAt |-> 0] >>]

Legacy4 == [title |-> <<"O", "l", "d">>, status |-> "Open"]

\* The ticket documents an earlier version of the application left behind.
LegacyStores == { <<Legacy1>>, <<Legacy2>>, <<Legacy3, Legacy4>> }

\* A visit that finds a legacy document, at any clock reading.
InitLegacy ==
  \E store \in LegacyStores, t0 \in 0..MaxNow : Mounted(<<store>>, NoItem, t0)

NextLegacy ==
  \/ Tick
  \/ submitTicket(GoodForm)
  \/ \E id \in TicketIds(tickets), changes \in InlineChanges : onChange(id, changes)
  \/ \E id \in TicketIds(tickets), edits \in DraftEdits : handleSave(id, edits)
  \/ \E id \in TicketIds(tickets), text \in NoteTexts, author \in NoteAuthors :
       onAddNote(id, text, author)
  \/ \E id \in TicketIds(tickets) : \E nid \in NoteIdInputs(id) : onDeleteNote(id, nid)
  \/ Reload
  \/ MountLoad
  \/ MountSave
  \/ MountCommit

SpecLegacy == InitLegacy /\ [][NextLegacy]_vars

\* ------------------------------------------------ stored raw records
\* What a stored document can hold in place of a ticket.
RawRecords ==
  { Null, Primitive, Legacy1, Legacy2, Legacy3, Legacy4 } \cup
  { [id |-> i, title |-> ti, status |-> st, priority |-> pr] :
      i \in { <<"L", "-", "1">>, NonString(String(7)), <<>> },
      ti \in { <<"T">>, EmptyArray, <<>> },
      st \in { "Open", "Bogus", "" },
      pr \in { "P1", "P9", "" } }

RawStores ==
  { <<Legacy1>>, <<Legacy3, Null, Legacy1>>, <<Primitive, Legacy4>>, NotArray }

\* A call of migrateTicket on a stored entry, as runTests makes one.
callMigrate(x) ==
  /\ last' = [op |-> "migrateTicket", arg |-> x, ret |-> migrateTicket(x, now)]
  /\ UNCHANGED <<tickets, seq, cfg, submitMsg, storedTickets, storedCfg, now, pc, pending>>

\* A visit that finds a document of raw records.
InitStored ==
  \E store \in RawStores, t0 \in 0..MaxNow : Mounted(<<store>>, NoItem, t0)

NextStored ==
  \/ Tick
  \/ \E x \in RawRecords : callMigrate(x)
  \/ Reload
  \/ MountLoad
  \/ MountSave
  \/ MountCommit

SpecStored == InitStored /\ [][NextStored]_vars

\* ------------------------------------------------------ SLA deadlines
\* new Date(iso).getTime(): the milliseconds of a clock reading, a tick
\* being the TicksPerDay-th part of a day.
getTime(t) == t * (86400000 \div TicksPerDay)

\* A priority argument that is undefined.
UndefinedPriority == "undefined"

\* computeDeadlines(priority, createdAtISO, cfg).  Each deadline is the
\* ISO string of a millisecond count and is held as that count.
\* x || 0 of a property that is not set is 0.
computeDeadlines(priority, createdAtISO, c) ==
  LET pri == IF isPriority(priority) THEN priority ELSE "P3"
      table == IF Has(c, "priorities") THEN c.priorities ELSE defaultPriorityConfig
      p == IF Has(table, pri) THEN table[pri] ELSE defaultPriorityConfig[pri]
      base == getTime(createdAtISO)
      respondMins == IF Has(p, "respondMins") THEN p.respondMins ELSE 0
      resolveMins == IF Has(p, "resolveMins") THEN p.resolveMins ELSE 0
  IN [respondDue |-> base + respondMins * 60 * 1000,
      resolveDue |-> base + resolveMins * 60 * 1000]

\* The priorities and configs computeDeadlines is called with: the cards
\* pass the config in memory, the detail editor and runTests a config of
\* their own.
PriorityInputs == { "P1", "P2", "P3", "P4", "P9", UndefinedPriority }

DeadlineConfigs ==
  { normalizeConfig(c) : c \in StoredConfigs } \cup
  { normalizeConfig(<<>>),
    [categories |-> <<>>, teams |-> <<>>, priorities |-> defaultPriorityConfig],
    [categories |-> <<>>, teams |-> <<>>],
    [priorities |-> [P2 |-> [label |-> "High", respondMins |-> 0, resolveMins |-> 15]]] }

callComputeDeadlines(priority, createdAtISO, c) ==
  /\ last' = [op |-> "computeDeadlines", priority |-> priority,
               createdAt |-> createdAtISO, cfg |-> c,
               ret |-> computeDeadlines(priority, createdAtISO, c)]
  /\ UNCHANGED <<tickets, seq, cfg, submitMsg, storedTickets, storedCfg, now, pc, pending>>

NextDeadlines ==
  \/ Tick
  \/ \E priority \in PriorityInputs, createdAtISO \in 0..now, c \in DeadlineConfigs :
       callComputeDeadlines(priority, createdAtISO, c)

SpecDeadlines == Init /\ [][NextDeadlines]_vars

\* ------------------------------------------------------- the filters
UpperChars ==
  <<"A", "B", "C", "D", "E", "F", "G", "H", "I", "J", "K", "L", "M",
    "N", "O", "P", "Q", "R", "S", "T", "U", "V", "W", "X", "Y", "Z">>

LowerChars ==
  <<"a", "b", "c", "d", "e", "f", "g", "h", "i", "j", "k", "l", "m",
    "n", "o", "p", "q", "r", "s", "t", "u", "v", "w", "x", "y", "z">>

\* s.toLowerCase()
toLowerCase(s) ==
  [i \in 1..Len(s) |->
     IF \E k \in 1..Len(UpperChars) : UpperChars[k] = s[i]
     THEN LowerChars[CHOOSE k \in 1..Len(UpperChars) : UpperChars[k] = s[i]]
     ELSE s[i]]

\* s.includes(q) of two strings
includesText(s, q) ==
  \E i \in 1..(Len(s) - Len(q) + 1) : SubSeq(s, i, i + Len(q) - 1) = q

\* The "All" of the category and team selects.
AllText == <<"A", "l", "l">>

\* The callback of tickets.filter in filtered.
matches(t, f) ==
  LET q == toLowerCase(f.q)
      matchesQ ==
        \/ ~Truthy(q)
        \/ includesText(toLowerCase(t.id), q)
        \/ includesText(toLowerCase(t.title), q)
        \/ includesText(toLowerCase(t.description), q)
        \/ includesText(toLowerCase(t.name), q)
        \/ includesText(toLowerCase(t.category), q)
        \/ includesText(toLowerCase(t.team), q)
      matchesStatus == f.status = "All" \/ t.status = f.status
      matchesCat == f.category = AllText \/ t.category = f.category
      matchesTeam == f.team = AllText \/ t.team = f.team
      matchesPrio == f.priority = "All" \/ t.priority = f.priority
  IN matchesQ /\ matchesStatus /\ matchesCat /\ matchesTeam /\ matchesPrio

\* filtered without the lower-casing of the ticket's fields.
filteredAsTyped(ts, f) ==
  SelectSeq(ts, LAMBDA t :
    /\ \/ ~Truthy(f.q)
       \/ \E x \in {t.id, t.title, t.description, t.name, t.category, t.team} :
            includesText(x, toLowerCase(f.q))
    /\ f.status = "All" \/ t.status = f.status
    /\ f.category = AllText \/ t.category = f.category
    /\ f.team = AllText \/ t.team = f.team
    /\ f.priority = "All" \/ t.priority = f.priority)

\* filtered: tickets.filter(...)
filtered(ts, f) == SelectSeq(ts, LAMBDA t : matches(t, f))

\* What the administrator sets the filters to.
FilterInputs ==
  [q : { <<>>, <<"o", "L">>, <<"n", "T", "k", "-">>, <<"z">> },
   status : { "All", "Open" },
   category : { AllText, defaultsC[2] },
   team : { AllText, FALLBACK_TEAM },
   priority : { "All", "P3" }]

\* setFilters(f) and the useMemo that computes filtered again.
setFilters(f) ==
  /\ pc = "ready"
  /\ last' = [op |-> "filtered", filters |-> f, ret |-> filtered(tickets, f)]
  /\ UNCHANGED <<tickets, seq, cfg, submitMsg, storedTickets, storedCfg, now, pc, pending>>

NextFilter ==
  \/ submitTicket(GoodForm)
  \/ \E id \in TicketIds(tickets), changes \in InlineChanges : onChange(id, changes)
  \/ \E f \in FilterInputs : setFilters(f)
  \/ MountLoad
  \/ MountSave
  \/ MountCommit

SpecFilter == InitLegacy /\ [][NextFilter]_vars

\* ----------------------------------------------------- the id format
\* The sequence numbers generateTicketId is called with.
SeqInputs ==
  (-5..25) \cup (9990..10010) \cup (-10003..-9998) \cup {19999, 20000, 123456}

\* A call of generateTicketId, as runTests makes one.
callGenerateTicketId(n) ==
  /\ last' = [op |-> "generateTicketId", n |-> n, ret |-> generateTicketId(n, now)]
  /\ UNCHANGED <<tickets, seq, cfg, submitMsg, storedTickets, storedCfg, now, pc, pending>>

NextIds ==
  \/ Tick
  \/ \E n \in SeqInputs : callGenerateTicketId(n)

SpecIds == Init /\ [][NextIds]_vars

\* ------------------------------------------------------------ claims
Indices(ts) == 1..Len(ts)

\* C1: in every state reached from a first visit by submissions, updates,
\* deletions and reloads, no two tickets of the collection have the same id.
C1_UniqueIds ==
  \A i, j \in Indices(tickets) : i # j => tickets[i].id # tickets[j].id

\* A string that is blank after trimming: it holds white space only.
IsBlank(s) == \A i \in 1..Len(s) : IsSpace(s[i])

\* text, "@", text, ".", text
LooksLikeEmail(s) ==
  \E a, b \in 1..Len(s) :
    /\ s[a] = "@" /\ s[b] = "."
    /\ a > 1 /\ b > a + 1 /\ b < Len(s)

CountDigits(s) == Cardinality({i \in 1..Len(s) : IsDigit(s[i])})

\* The forms C2 is about.
FailsValidation(form) ==
  \/ IsBlank(form.title)
  \/ IsBlank(form.description)
  \/ IsBlank(form.name)
  \/ IsBlank(form.contactValue)
  \/ form.contactType = "email" /\ ~LooksLikeEmail(trim(form.contactValue))
  \/ form.contactType = "phone" /\ CountDigits(form.contactValue) < 10

\* C2: a submission with a blank required field or a contact value that
\* fails its format check reports a non-empty list of messages and leaves
\* the collection, the sequence counter and the stored tickets as they were.
C2_InvalidSubmitChangesNothing ==
  [][(last'.op = "submitTicket" /\ FailsValidation(last'.form)) =>
       /\ submitMsg'.kind = "errors"
       /\ Len(submitMsg'.errs) > 0
       /\ tickets' = tickets
       /\ seq' = seq
       /\ storedTickets' = storedTickets]_vars

\* A rejected "not-an-email" with a ticket in the collection.
C2_Witness ==
  /\ last.op = "submitTicket"
  /\ FailsValidation(last.form)
  /\ last.form.contactValue = <<"n", "o", "t", "-", "a", "n", "-", "e", "m", "a", "i", "l">>
  /\ submitMsg.kind = "errors"
  /\ Len(tickets) > 0

\* C3: after a submission that passes validation the collection is the new
\* ticket followed by the previous collection, and the new ticket is Open,
\* P3, Unassigned, without notes, created and updated at the submission.
C3_SubmitPrepends ==
  [][(last'.op = "submitTicket" /\ Len(validate(last'.form)) = 0) =>
       /\ Len(tickets') = Len(tickets) + 1
       /\ \A i \in Indices(tickets) : tickets'[i + 1] = tickets[i]
       /\ tickets'[1].status = "Open"
       /\ tickets'[1].priority = "P3"
       /\ tickets'[1].team = FALLBACK_TEAM
       /\ tickets'[1].notes = <<>>
       /\ tickets'[1].createdAt = now
       /\ tickets'[1].updatedAt = now]_vars

\* A second ticket submitted in front of one that has been worked on.
C3_Witness ==
  /\ last.op = "submitTicket"
  /\ submitMsg.kind = "thanks"
  /\ Len(tickets) = 2
  /\ tickets[1].id = submitMsg.id
  /\ tickets[2].status # "Open"
  /\ tickets[2].notes # <<>>

\* C4: every ticket of the collection, migrated, submitted or updated, has
\* updatedAt not earlier than createdAt.
C4_UpdatedNotBeforeCreated ==
  \A i \in Indices(tickets) : tickets[i].updatedAt >= tickets[i].createdAt

\* The merge of ticket t with changes, stamped at clock reading t0.
IsMergeOf(new, t, changes, t0) ==
  /\ DOMAIN new = DOMAIN t \cup DOMAIN changes
  /\ new.updatedAt = t0
  /\ \A f \in DOMAIN changes \ {"updatedAt"} : new[f] = changes[f]
  /\ \A f \in DOMAIN t \ (DOMAIN changes \cup {"updatedAt"}) : new[f] = t[f]

\* C5: updateTicket(id, changes) keeps the length and order of the
\* collection, replaces the ticket of that id by its merge with changes
\* stamped now, and leaves every other ticket as it was.
C5_UpdateChangesOnlyThatTicket ==
  [][last'.op \in {"updateTicket", "handleSave"} =>
       /\ Len(tickets') = Len(tickets)
       /\ \A i \in Indices(tickets) :
            IF tickets[i].id = last'.id
            THEN IsMergeOf(tickets'[i], tickets[i], last'.changes, now)
            ELSE tickets'[i] = tickets[i]
       /\ (~HasTicket(tickets, last'.id) => tickets' = tickets)]_vars

\* One of two tickets has been set In Progress from its card; the other is
\* still Open.
C5_Witness ==
  /\ last.op = "updateTicket"
  /\ Len(tickets) = 2
  /\ tickets[1].id # tickets[2].id
  /\ tickets[2].id = last.id
  /\ tickets[2].status = "In Progress"
  /\ tickets[1].status = "Open"

NoteIds(t) == {t.notes[i].id : i \in 1..Len(t.notes)}

\* C6: deleteNote with a note id that no note of the ticket holds changes no
\* field of any ticket, and the stored tickets stay as they were.
C6_UnknownNoteIsNoOp ==
  [][(/\ last'.op = "onDeleteNote"
      /\ HasTicket(tickets, last'.id)
      /\ last'.note \notin NoteIds(find(tickets, last'.id))) =>
       /\ tickets' = tickets
       /\ storedTickets' = storedTickets]_vars

\* new is old with some notes removed, the others in their order.
RECURSIVE IsSubsequence(_, _)
IsSubsequence(new, old) ==
  IF new = <<>> THEN TRUE
  ELSE IF old = <<>> THEN FALSE
  ELSE IF Head(new) = Head(old) THEN IsSubsequence(Tail(new), Tail(old))
  ELSE IsSubsequence(new, Tail(old))

\* C7: an operation that keeps the collection's tickets in place leaves the
\* notes of each of them the same, or with one note appended (addNote), or
\* with notes removed and the others in their order (deleteNote); a note id
\* that is not in the list removes nothing, and Save Changes changes no note.
\* Notes are compared as JSON writes them: an author that holds undefined
\* and an author that is not set are the same.
C7_NotesAppendOrRemoveOnly ==
  [][last'.op \in {"updateTicket", "handleSave", "onAddNote", "onDeleteNote"} =>
       /\ Len(tickets') = Len(tickets)
       /\ \A i \in Indices(tickets) :
            LET old == jsonTicket(tickets[i]).notes
                new == jsonTicket(tickets'[i]).notes
            IN /\ \/ new = old
                  \/ /\ last'.op = "onAddNote"
                     /\ Len(new) = Len(old) + 1
                     /\ SubSeq(new, 1, Len(old)) = old
                  \/ /\ last'.op = "onDeleteNote"
                     /\ IsSubsequence(new, old)
               /\ (last'.op = "onDeleteNote" /\ last'.note \notin NoteIds(tickets[i]))
                    => new = old
               /\ last'.op = "handleSave" => new = old]_vars

\* C8: the notes of one ticket have pairwise distinct ids.
C8_NoteIdsDistinct ==
  \A i \in Indices(tickets) :
    \A a, b \in 1..Len(tickets[i].notes) :
      a # b => tickets[i].notes[a].id # tickets[i].notes[b].id

\* C9: once an operation and its effects are over, the stored ticket
\* document is the collection in memory, ticket by ticket in the same order;
\* no document stands for the empty collection.
C9_StoredIsCollection ==
  pc = "ready" =>
    \/ storedTickets = NoItem /\ tickets = <<>>
    \/ /\ storedTickets # NoItem
       /\ Len(storedTickets[1]) = Len(tickets)
       /\ \A i \in Indices(tickets) : storedTickets[1][i] = jsonTicket(tickets[i])

\* Two tickets, one with a note, just after a note was added.
C9_Witness ==
  /\ pc = "ready"
  /\ last.op = "onAddNote"
  /\ Len(tickets) = 2
  /\ tickets[2].notes # <<>>
  /\ storedTickets # NoItem
  /\ Len(storedTickets[1]) = 2

\* The indices of the tickets whose id is not id, in order.
Others(ts, id) == SelectSeq([i \in 1..Len(ts) |-> i], LAMBDA i : ts[i].id # id)

\* C10: a declined deleteTicket changes neither the collection, the config
\* nor the stored documents; an approved one leaves the tickets of another
\* id, unchanged and in their order.
C10_DeleteRemovesOnlyThatTicket ==
  [][last'.op = "deleteTicket" =>
       IF ~last'.confirmed
       THEN /\ tickets' = tickets
            /\ cfg' = cfg
            /\ storedTickets' = storedTickets
            /\ storedCfg' = storedCfg
       ELSE /\ Len(tickets') = Len(Others(tickets, last'.id))
            /\ \A k \in Indices(tickets') : tickets'[k] = tickets[Others(tickets, last'.id)[k]]
            /\ (~HasTicket(tickets, last'.id) => tickets' = tickets)]_vars

\* The older of two tickets has been deleted and the newer one is left.
C10_Witness ==
  /\ last.op = "deleteTicket"
  /\ last.confirmed
  /\ Len(tickets) = 1
  /\ tickets[1].id # last.id
  /\ last.id # UnknownTicketId
  /\ storedTickets = saveTickets(tickets)

\* C11: normalizeConfig returns lists of categories and of teams that are
\* not empty, whatever the stored config holds, and no addition or removal
\* of a tag leaves the config in memory with an empty list.
C11_ListsNotEmpty ==
  /\ Len(cfg.categories) > 0
  /\ Len(cfg.teams) > 0
  /\ \A c \in StoredConfigs :
       /\ Len(normalizeConfig(c).categories) > 0
       /\ Len(normalizeConfig(c).teams) > 0

\* The only team and the only category have been removed.
C11_Witness ==
  /\ last.op = "removeTeam"
  /\ last.tag = TagA
  /\ cfg.teams = <<FALLBACK_TEAM>>
  /\ cfg.categories = <<FALLBACK_CATEGORY>>

\* C12: the teams of the config hold "Unassigned" in every state.
C12_TeamsHoldUnassigned == includes(cfg.teams, FALLBACK_TEAM)

\* C13: the priority table of the config has an entry for each of P1..P4,
\* with respond and resolve minutes that are numbers not below 0.
C13_MinutesNotNegative ==
  \A p \in {"P1", "P2", "P3", "P4"} :
    /\ Has(cfg.priorities, p)
    /\ \A f \in {"respondMins", "resolveMins"} :
         Has(cfg.priorities[p], f) /\ cfg.priorities[p][f] >= 0

\* C14: migrateTicket throws for no stored entry, and the collection loaded
\* from a stored array holds the migrated form of every entry that is a
\* record, whatever the other entries are.
C14_MigrationNeverThrows ==
  /\ last.op = "migrateTicket" => last.ret # TypeError
  /\ (pc = "loaded" /\ storedTickets # NoItem /\ isArray(storedTickets[1])) =>
       \A i \in 1..Len(storedTickets[1]) :
         storedTickets[1][i] # Null =>
           \E k \in 1..Len(pending) : pending[k] = migrateTicket(storedTickets[1][i], now)

\* C15: the migrated ticket has a priority among P1..P4, P3 when the stored
\* one is missing or not one of them, and a status among the five.
C15_MigratedEnumsAreValid ==
  (last.op = "migrateTicket" /\ last.ret # TypeError) =>
    /\ last.ret.priority \in {"P1", "P2", "P3", "P4"}
    /\ (~Has(last.arg, "priority") \/ ~isPriority(last.arg.priority))
         => last.ret.priority = "P3"
    /\ last.ret.status \in {"Open", "In Progress", "On Hold", "Resolved", "Closed"}

\* C16: with the clock held, migrating a migrated ticket gives it back.
C16_MigrateIdempotent ==
  (last.op = "migrateTicket" /\ last.ret # TypeError) =>
    migrateTicket(last.ret, now) = last.ret

\* C17: computeDeadlines gives createdAt plus the respond minutes and
\* createdAt plus the resolve minutes of the effective priority (the given
\* one if it is P1..P4, else P3), the minutes being those of the config's
\* entry, or the hardcoded ones when the config has no table or no entry; an
\* undefined priority gives what "P3" gives, and P1 with the default table
\* gives 60 and 1440 minutes.
C17_Deadlines ==
  last.op = "computeDeadlines" =>
    LET pri == IF last.priority \in {"P1", "P2", "P3", "P4"} THEN last.priority ELSE "P3"
        entry == IF Has(last.cfg, "priorities") /\ Has(last.cfg.priorities, pri)
                 THEN last.cfg.priorities[pri] ELSE defaultPriorityConfig[pri]
        base == getTime(last.createdAt)
    IN /\ Has(entry, "respondMins")
       /\ Has(entry, "resolveMins")
       /\ last.ret.respondDue - base = entry.respondMins * 60000
       /\ last.ret.resolveDue - base = entry.resolveMins * 60000
       /\ last.priority = UndefinedPriority =>
            last.ret = computeDeadlines("P3", last.createdAt, last.cfg)
       /\ (/\ last.priority = "P1"
           /\ Has(last.cfg, "priorities")
           /\ last.cfg.priorities = defaultPriorityConfig) =>
            /\ last.ret.respondDue - base = 60 * 60000
            /\ last.ret.resolveDue - base = 1440 * 60000

\* Two characters that are the same letter, in either case.
SameLetter(a, b) ==
  \/ a = b
  \/ \E k \in 1..Len(UpperChars) :
       {a, b} = {UpperChars[k], LowerChars[k]}

\* q occurs in s, the case of letters set aside.
OccursIn(q, s) ==
  \E i \in 0..(Len(s) - Len(q)) : \A k \in 1..Len(q) : SameLetter(q[k], s[i + k])

\* The tickets C18 says the filters keep.
Kept(t, f) ==
  /\ \/ f.q = <<>>
     \/ OccursIn(f.q, t.id) \/ OccursIn(f.q, t.title) \/ OccursIn(f.q, t.description)
     \/ OccursIn(f.q, t.name) \/ OccursIn(f.q, t.category) \/ OccursIn(f.q, t.team)
  /\ f.status \in {"All", t.status}
  /\ f.category \in {AllText, t.category}
  /\ f.team \in {AllText, t.team}
  /\ f.priority \in {"All", t.priority}

\* The indices, in order, of the tickets of ts that f keeps.
KeptIndices(ts, f) == SelectSeq([i \in 1..Len(ts) |-> i], LAMBDA i : Kept(ts[i], f))

\* C18: the filtered tickets are, in the collection's order, exactly the
\* tickets that match the query in some field without regard to case (or
\* any ticket when the query is empty) and that equal every filter that is
\* not "All"; with no query and four "All" they are the whole collection;
\* computing them leaves the collection as it is.
C18_FilteredIsMatchingSubsequence ==
  [][last'.op = "filtered" =>
       /\ Len(last'.ret) = Len(KeptIndices(tickets, last'.filters))
       /\ \A k \in 1..Len(last'.ret) :
            last'.ret[k] = tickets[KeptIndices(tickets, last'.filters)[k]]
       /\ last'.filters = [q |-> <<>>, status |-> "All", category |-> AllText,
                           team |-> AllText, priority |-> "All"] => last'.ret = tickets
       /\ tickets' = tickets
       /\ storedTickets' = storedTickets]_vars

\* Of two tickets titled "Old", the query "oL" and the status Open keep the
\* second.
C18_Witness ==
  /\ last.op = "filtered"
  /\ last.filters.q = <<"o", "L">>
  /\ last.filters.status = "Open"
  /\ Len(tickets) = 2
  /\ tickets[1].title = tickets[2].title
  /\ last.ret = <<tickets[2]>>

\* ^[A-Z]+-\d{8}-\d{4}$
HasIdFormat(id) ==
  \E k \in 1..Len(id) :
    /\ Len(id) = k + 14
    /\ \A i \in 1..k : \E u \in 1..Len(UpperChars) : id[i] = UpperChars[u]
    /\ id[k + 1] = "-"
    /\ \A i \in (k + 2)..(k + 9) : IsDigit(id[i])
    /\ id[k + 10] = "-"
    /\ \A i \in (k + 11)..(k + 14) : IsDigit(id[i])

\* C19: for every integer n, generateTicketId(n) is an upper-case prefix,
\* "-", eight digits, "-", four digits, and the four digits read n mod 10000.
C19_IdFormat ==
  last.op = "generateTicketId" =>
    /\ HasIdFormat(last.ret)
    /\ digitsValue(SubSeq(last.ret, Len(last.ret) - 3, Len(last.ret))) = last.n % 10000

\* The number of tickets a stored document holds.
StoredCount(item) == IF item = NoItem THEN 0 ELSE Len(item[1])

\* C20: no step of startup leaves the stored document with fewer tickets
\* than it held; the load effect reads the migrated form of every stored
\* record in stored order, and once startup has settled the collection and
\* the stored document hold it.
C20_StartupKeepsTickets ==
  [][last'.op \in {"MountLoad", "MountSave", "MountCommit"} =>
       /\ StoredCount(storedTickets') >= StoredCount(storedTickets)
       /\ last'.op = "MountLoad" =>
            /\ Len(pending') = StoredCount(storedTickets)
            /\ \A i \in 1..Len(pending') :
                 pending'[i] = migrateTicket(storedTickets[1][i], now)
       /\ last'.op = "MountCommit" =>
            /\ tickets' = pending
            /\ storedTickets' = saveTickets(pending)]_vars

\* C21: after a change of the config in memory its effect stops: it
\* replaces the config at most once, and when it has stopped the config is
\* its own normalized form and is the stored config; every scheduled run
\* of the effect leads to a state where none is scheduled.
C21_ConfigEffectTerminates ==
  /\ [][last'.op = "cfgEffect" =>
          /\ last'.replaced <= 1
          /\ pc' = "ready" =>
               /\ normalizeConfig(cfg') = cfg'
               /\ storedCfg' = saveConfig(cfg')]_vars
  /\ (pc = "effect") ~> (pc = "ready")

\* The effect has stopped after a tag X was added and the respond minutes
\* of P1 were set to -5.
C21_Witness ==
  /\ last.op = "cfgEffect"
  /\ pc = "ready"
  /\ includes(cfg.categories, TagX)
  /\ cfg.priorities.P1.respondMins = -5
  /\ storedCfg = saveConfig(cfg)

====
